---------------------------- MODULE Spec2Model ----------------------------
(***************************************************************************)
(* Ticket lifecycle of the mirmex helpdesk (src/tickets): the Tickets      *)
(* model's status machine (models.py), the administrator's direct edit     *)
(* (forms.py TicketUpdateForm, views.py TicketUpdateView), ticket creation *)
(* and comments (views.py), and the TicketHistory audit trail they write.  *)
(*                                                                         *)
(* Every operation is one request: it loads the ticket row from the        *)
(* database (get_object_or_404 / the caller's fresh object), runs the      *)
(* method on that in-memory object, and writes the row and the history     *)
(* entries the code writes.                                                *)
(***************************************************************************)
EXTENDS Integers, Sequences, FiniteSets, TLC

VARIABLES
    tickets,    \* table Tickets: pk -> row
    history,    \* table TicketHistory, in insertion (timestamp) order
    comments,   \* table Comment, in insertion order
    now,        \* the clock, timezone.now()
    obj,        \* the in-memory Tickets object the last caller holds
    last,       \* the last call made: operation and outcome
    auth,       \* tables auth_user / auth_user_groups: user -> flags and groups
    inflight,   \* per worker: the request it is serving and the object it holds
    equipment   \* table Equipment: pk -> row

vars == <<tickets, history, comments, now, obj, last, auth, inflight, equipment>>

----------------------------------------------------------------------------
(* Bounds of the model                                                     *)

\* entries of the history table
MaxHistory == 4
\* ticks of the clock
MaxTime == 1

----------------------------------------------------------------------------
(* Users and groups (django.contrib.auth)                                  *)

NoUser == "None"

Users == {"root", "disp", "tech", "rep"}

\* the group names the views test for
Groups == {"admin", "dispatcher", "technician", "reporter"}

\* a row of auth_user with its groups
Profile(su, gs) == [is_superuser |-> su, groups |-> gs]

\* the accounts the lifecycle is exercised with: a superuser, a dispatcher,
\* a technician and a registered user (RegisterView puts it in 'reporter')
AuthFixture ==
    [u \in Users |->
        CASE u = "root" -> Profile(TRUE, {})
          [] u = "disp" -> Profile(FALSE, {"dispatcher"})
          [] u = "tech" -> Profile(FALSE, {"technician"})
          [] u = "rep"  -> Profile(FALSE, {"reporter"})]

is_superuser(u) == auth[u].is_superuser

groups(u) == auth[u].groups

\* variant of is_admin_or_dispatcher: the group 'admin' is not looked at
is_admin_or_dispatcher_without_admin_group(user) ==
    is_superuser(user) \/ "dispatcher" \in groups(user)

\* views.py: role helpers
is_admin_or_dispatcher(user) ==
    is_superuser(user) \/ groups(user) \cap {"admin", "dispatcher"} # {}

is_technician(user) == "technician" \in groups(user)

\* variant of get_user_role: the group 'technician' is looked at before the
\* group 'dispatcher'
get_user_role_technician_first(user) ==
    IF is_superuser(user) \/ "admin" \in groups(user) THEN "admin"
    ELSE IF "technician" \in groups(user) THEN "technician"
    ELSE IF "dispatcher" \in groups(user) THEN "dispatcher"
    ELSE "reporter"

\* views.py: get_user_role, first match wins
get_user_role(user) ==
    IF is_superuser(user) \/ "admin" \in groups(user) THEN "admin"
    ELSE IF "dispatcher" \in groups(user) THEN "dispatcher"
    ELSE IF "technician" \in groups(user) THEN "technician"
    ELSE "reporter"

\* User.objects.filter(groups__name='technician')
TechnicianQueryset == {u \in Users : "technician" \in groups(u)}

----------------------------------------------------------------------------
(* models.py: Tickets                                                      *)

STATUS_NEW == "new"
STATUS_ASSIGNED == "assigned"
STATUS_IN_PROGRESS == "in_progress"
STATUS_CLOSED == "closed"

STATUS_CHOICES == {STATUS_NEW, STATUS_ASSIGNED, STATUS_IN_PROGRESS, STATUS_CLOSED}

\* variants of the table, each a slip the checked properties must notice
ALLOWED_TRANSITIONS_reopen ==
    [s \in STATUS_CHOICES |->
        CASE s = STATUS_NEW         -> {STATUS_ASSIGNED, STATUS_CLOSED}
          [] s = STATUS_ASSIGNED    -> {STATUS_IN_PROGRESS, STATUS_CLOSED}
          [] s = STATUS_IN_PROGRESS -> {STATUS_CLOSED}
          [] s = STATUS_CLOSED      -> {STATUS_NEW}]

ALLOWED_TRANSITIONS_skip ==
    [s \in STATUS_CHOICES |->
        CASE s = STATUS_NEW         -> {STATUS_ASSIGNED, STATUS_IN_PROGRESS, STATUS_CLOSED}
          [] s = STATUS_ASSIGNED    -> {STATUS_IN_PROGRESS, STATUS_CLOSED}
          [] s = STATUS_IN_PROGRESS -> {STATUS_CLOSED}
          [] s = STATUS_CLOSED      -> {}]

ALLOWED_TRANSITIONS_reassign ==
    [s \in STATUS_CHOICES |->
        CASE s = STATUS_NEW         -> {STATUS_ASSIGNED, STATUS_CLOSED}
          [] s = STATUS_ASSIGNED    -> {STATUS_ASSIGNED, STATUS_IN_PROGRESS, STATUS_CLOSED}
          [] s = STATUS_IN_PROGRESS -> {STATUS_CLOSED}
          [] s = STATUS_CLOSED      -> {}]

ALLOWED_TRANSITIONS ==
    [s \in STATUS_CHOICES |->
        CASE s = STATUS_NEW         -> {STATUS_ASSIGNED, STATUS_CLOSED}
          [] s = STATUS_ASSIGNED    -> {STATUS_IN_PROGRESS, STATUS_CLOSED}
          [] s = STATUS_IN_PROGRESS -> {STATUS_CLOSED}
          [] s = STATUS_CLOSED      -> {}]

\* a nullable DateTimeField: <<>> is None, <<t>> is the instant t
Unset == <<>>
At(t) == <<t>>

ACTION_CREATED == "created"
ACTION_STATUS_CHANGED == "status_changed"
ACTION_ASSIGNED == "assigned"
ACTION_COMMENTED == "commented"
ACTION_EDITED == "edited"

\* TicketHistory.objects.create(...): old_status / new_status are blank ('')
\* unless given
HistoryEntry(pk, changed_by, action, old_status, new_status) ==
    [ticket |-> pk, changed_by |-> changed_by, action |-> action,
     old_status |-> old_status, new_status |-> new_status]

Blank == ""

\* outcomes of a call
OK == "ok"
ERR_INVALID_TRANSITION == "ValidationError: invalid transition"
ERR_MISSING_TECHNICIAN == "ValidationError: no technician given"
ERR_NO_TECHNICIAN == "ValidationError: cannot start without technician"

\* Model.save(update_fields=fields): the named columns of the row are
\* overwritten by the object's values
save(self, row, fields) ==
    [f \in DOMAIN row |-> IF f \in fields THEN self[f] ELSE row[f]]

AllFields == {"status", "technician", "reporter", "due_date", "created_at", "closed_at"}

\* variants of change_status, each a slip the checked properties must notice:
\* the body of change_status with the validation, the closed_at stamp and the
\* condition of the history entry as parameters
change_status_variant(pk, self, row, new_status, changed_by, rejected, stamp, logged, t) ==
    LET old_status == self.status
    IN  IF rejected
        THEN [res |-> ERR_INVALID_TRANSITION, self |-> self, row |-> row, log |-> <<>>]
        ELSE LET self1 == [self EXCEPT
                    !.status = new_status,
                    !.closed_at = IF stamp THEN At(t) ELSE @]
             IN  [res  |-> OK,
                  self |-> self1,
                  row  |-> save(self1, row, AllFields),
                  log  |-> IF logged
                           THEN <<HistoryEntry(pk, changed_by, ACTION_STATUS_CHANGED,
                                               old_status, new_status)>>
                           ELSE <<>>]

\* a call with the current status is let through as a no-op
change_status_same_status_accepted(pk, self, row, new_status, changed_by, bypass_validation, t) ==
    change_status_variant(pk, self, row, new_status, changed_by,
        ~bypass_validation /\ new_status # self.status
            /\ new_status \notin ALLOWED_TRANSITIONS[self.status],
        new_status = STATUS_CLOSED /\ self.closed_at = Unset,
        self.status # new_status, t)

\* closed_at is stamped on every call that targets closed
change_status_restamps(pk, self, row, new_status, changed_by, bypass_validation, t) ==
    change_status_variant(pk, self, row, new_status, changed_by,
        ~bypass_validation /\ new_status \notin ALLOWED_TRANSITIONS[self.status],
        new_status = STATUS_CLOSED,
        self.status # new_status, t)

\* no history entry is written when the validation is bypassed
change_status_silent_bypass(pk, self, row, new_status, changed_by, bypass_validation, t) ==
    change_status_variant(pk, self, row, new_status, changed_by,
        ~bypass_validation /\ new_status \notin ALLOWED_TRANSITIONS[self.status],
        new_status = STATUS_CLOSED /\ self.closed_at = Unset,
        self.status # new_status /\ ~bypass_validation, t)

\* the history entry is written on every accepted call
change_status_always_logs(pk, self, row, new_status, changed_by, bypass_validation, t) ==
    change_status_variant(pk, self, row, new_status, changed_by,
        ~bypass_validation /\ new_status \notin ALLOWED_TRANSITIONS[self.status],
        new_status = STATUS_CLOSED /\ self.closed_at = Unset,
        TRUE, t)

\* the status is validated against the stored row, read again at the call
change_status_refreshed(pk, self, row, new_status, changed_by, bypass_validation, t) ==
    change_status_variant(pk, self, row, new_status, changed_by,
        ~bypass_validation /\ new_status \notin ALLOWED_TRANSITIONS[row.status],
        new_status = STATUS_CLOSED /\ self.closed_at = Unset,
        self.status # new_status, t)

\* Tickets.change_status. self: the in-memory object, row: the stored row.
\* The result holds the outcome, the object and the row after the call and
\* the history entries created.
change_status(pk, self, row, new_status, changed_by, bypass_validation, t) ==
    LET old_status == self.status
    IN  IF ~bypass_validation /\ new_status \notin ALLOWED_TRANSITIONS[self.status]
        THEN [res |-> ERR_INVALID_TRANSITION, self |-> self, row |-> row, log |-> <<>>]
        ELSE LET self1 == [self EXCEPT
                    !.status = new_status,
                    !.closed_at = IF new_status = STATUS_CLOSED /\ self.closed_at = Unset
                                  THEN At(t) ELSE @]
             IN  [res  |-> OK,
                  self |-> self1,
                  row  |-> save(self1, row, AllFields),
                  log  |-> IF old_status # new_status
                           THEN <<HistoryEntry(pk, changed_by, ACTION_STATUS_CHANGED,
                                               old_status, new_status)>>
                           ELSE <<>>]

\* variants of assign: the technician check is skipped under bypass
assign_unchecked_bypass(pk, self, row, technician, changed_by, bypass_validation, t) ==
    IF technician = NoUser /\ ~bypass_validation
    THEN [res |-> ERR_MISSING_TECHNICIAN, self |-> self, row |-> row, log |-> <<>>]
    ELSE LET self1 == [self EXCEPT !.technician = technician]
             r == change_status(pk, self1, row, STATUS_ASSIGNED, changed_by,
                                bypass_validation, t)
         IN  IF r.res # OK
             THEN r
             ELSE [res  |-> OK,
                   self |-> r.self,
                   row  |-> save(r.self, r.row, {"technician", "status", "closed_at"}),
                   log  |-> r.log \o <<HistoryEntry(pk, changed_by, ACTION_ASSIGNED,
                                                    Blank, Blank)>>]

\* the 'assigned' entry is written before the status is changed
assign_logs_first(pk, self, row, technician, changed_by, bypass_validation, t) ==
    IF technician = NoUser
    THEN [res |-> ERR_MISSING_TECHNICIAN, self |-> self, row |-> row, log |-> <<>>]
    ELSE LET self1 == [self EXCEPT !.technician = technician]
             r == change_status(pk, self1, row, STATUS_ASSIGNED, changed_by,
                                bypass_validation, t)
         IN  IF r.res # OK
             THEN r
             ELSE [res  |-> OK,
                   self |-> r.self,
                   row  |-> save(r.self, r.row, {"technician", "status", "closed_at"}),
                   log  |-> <<HistoryEntry(pk, changed_by, ACTION_ASSIGNED,
                                           Blank, Blank)>> \o r.log]

\* the technician given is not stored in the object
assign_drops_technician(pk, self, row, technician, changed_by, bypass_validation, t) ==
    IF technician = NoUser
    THEN [res |-> ERR_MISSING_TECHNICIAN, self |-> self, row |-> row, log |-> <<>>]
    ELSE LET r == change_status(pk, self, row, STATUS_ASSIGNED, changed_by,
                                bypass_validation, t)
         IN  IF r.res # OK
             THEN r
             ELSE [res  |-> OK,
                   self |-> r.self,
                   row  |-> save(r.self, r.row, {"technician", "status", "closed_at"}),
                   log  |-> r.log \o <<HistoryEntry(pk, changed_by, ACTION_ASSIGNED,
                                                    Blank, Blank)>>]

\* Tickets.assign
assign(pk, self, row, technician, changed_by, bypass_validation, t) ==
    IF technician = NoUser
    THEN [res |-> ERR_MISSING_TECHNICIAN, self |-> self, row |-> row, log |-> <<>>]
    ELSE LET self1 == [self EXCEPT !.technician = technician]
             r == change_status(pk, self1, row, STATUS_ASSIGNED, changed_by,
                                bypass_validation, t)
         IN  IF r.res # OK
             THEN r
             ELSE [res  |-> OK,
                   self |-> r.self,
                   row  |-> save(r.self, r.row, {"technician", "status", "closed_at"}),
                   log  |-> r.log \o <<HistoryEntry(pk, changed_by, ACTION_ASSIGNED,
                                                    Blank, Blank)>>]

\* variant of start_work: the technician check is skipped under bypass
start_work_unchecked_bypass(pk, self, row, changed_by, bypass_validation, t) ==
    IF self.technician = NoUser /\ ~bypass_validation
    THEN [res |-> ERR_NO_TECHNICIAN, self |-> self, row |-> row, log |-> <<>>]
    ELSE change_status(pk, self, row, STATUS_IN_PROGRESS, changed_by, bypass_validation, t)

\* Tickets.start_work
start_work(pk, self, row, changed_by, bypass_validation, t) ==
    IF self.technician = NoUser
    THEN [res |-> ERR_NO_TECHNICIAN, self |-> self, row |-> row, log |-> <<>>]
    ELSE change_status(pk, self, row, STATUS_IN_PROGRESS, changed_by, bypass_validation, t)

\* Tickets.close
close(pk, self, row, changed_by, bypass_validation, t) ==
    change_status(pk, self, row, STATUS_CLOSED, changed_by, bypass_validation, t)

\* variant of is_overdue: the status is not looked at
is_overdue_ignores_status(self, t) ==
    IF self.due_date # Unset
    THEN t > self.due_date[1]
    ELSE FALSE

\* variant of is_overdue: a ticket is overdue from the instant of its due_date
is_overdue_from_due_date(self, t) ==
    IF self.due_date # Unset /\ self.status # STATUS_CLOSED
    THEN t >= self.due_date[1]
    ELSE FALSE

\* Tickets.is_overdue at the instant t = timezone.now()
is_overdue(self, t) ==
    IF self.due_date # Unset /\ self.status # STATUS_CLOSED
    THEN t > self.due_date[1]
    ELSE FALSE

\* Python's round() of the quotient n / d, d > 0: the nearest integer, a tie
\* going to the even one
round(n, d) ==
    LET q == n \div d
        r == n % d
    IN  IF 2 * r < d THEN q
        ELSE IF 2 * r > d THEN q + 1
        ELSE IF q % 2 = 0 THEN q ELSE q + 1

\* Tickets.resolution_hours. Instants are counted in minutes; the result is
\* None (Unset) or a float with one decimal, counted in tenths of an hour:
\* round(delta.total_seconds() / 3600, 1)
resolution_hours(self) ==
    IF self.closed_at # Unset
    THEN LET delta == self.closed_at[1] - self.created_at[1]
         IN  At(round(10 * delta, 60))
    ELSE Unset

----------------------------------------------------------------------------
(* forms.py / views.py: the administrator's direct edit                    *)

\* TicketUpdateForm.save for a superuser, after ModelForm validation; the
\* due_date posted is the one the form was opened with
TicketUpdateForm_save(self, row, new_status, new_technician, t) ==
    LET self1 == [self EXCEPT
            !.status = new_status,
            !.technician = new_technician,
            !.closed_at = IF new_status = STATUS_CLOSED /\ self.closed_at = Unset
                          THEN At(t) ELSE @]
    IN  [self |-> self1, row |-> save(self1, row, AllFields)]

\* variant of TicketUpdateView.form_valid: the old status is read from the
\* object after the form has been saved
TicketUpdateView_form_valid_reads_saved_status(pk, self, row, user, new_status, new_technician, t) ==
    LET r == TicketUpdateForm_save(self, row, new_status, new_technician, t)
        old_status == r.self.status
    IN  [res  |-> OK,
         self |-> r.self,
         row  |-> r.row,
         log  |-> IF old_status # r.self.status
                  THEN <<HistoryEntry(pk, user, ACTION_EDITED, old_status, r.self.status)>>
                  ELSE <<>>]

\* TicketUpdateView.form_valid: the form is saved, then an 'edited' entry is
\* written when the status differs from the one the form was opened with
TicketUpdateView_form_valid(pk, self, row, user, new_status, new_technician, t) ==
    LET old_status == self.status
        r == TicketUpdateForm_save(self, row, new_status, new_technician, t)
    IN  [res  |-> OK,
         self |-> r.self,
         row  |-> r.row,
         log  |-> IF old_status # r.self.status
                  THEN <<HistoryEntry(pk, user, ACTION_EDITED, old_status, r.self.status)>>
                  ELSE <<>>]

\* variant of the access check of add_comment: the reporter of a ticket may
\* comment on it whatever groups the reporter is in
add_comment_allowed_any_reporter(user, ticket) ==
    \/ is_admin_or_dispatcher(user)
    \/ is_technician(user) /\ ticket.technician = user
    \/ ticket.reporter = user

\* the access check of add_comment
add_comment_allowed(user, ticket) ==
    \/ is_admin_or_dispatcher(user)
    \/ is_technician(user) /\ ticket.technician = user
    \/ ~is_technician(user) /\ ticket.reporter = user

\* TicketUpdateView.dispatch
TicketUpdateView_allowed(user) == is_superuser(user)

\* TicketCreateView.dispatch
TicketCreateView_allowed(user) ==
    is_superuser(user) \/ groups(user) \cap {"admin", "dispatcher", "reporter"} # {}

----------------------------------------------------------------------------
(* The state machine                                                       *)

NoCall == [op |-> "none", pk |-> 0, res |-> OK]

Call(op, pk, res) == [op |-> op, pk |-> pk, res |-> res]

NoObject == [status |-> Blank, technician |-> NoUser, reporter |-> NoUser,
             due_date |-> Unset, created_at |-> Unset, closed_at |-> Unset]

\* the processes that serve requests side by side
Workers == {"w1", "w2"}

\* a worker that serves no request
Idle == [op |-> "idle", pk |-> 0, self |-> NoObject, arg |-> Blank, by |-> NoUser]

\* empty ticket tables, no request being served
InitTables ==
    /\ tickets = <<>>
    /\ history = <<>>
    /\ comments = <<>>
    /\ now = 0
    /\ obj = NoObject
    /\ last = NoCall
    /\ inflight = [w \in Workers |-> Idle]
    /\ equipment = <<>>

Init ==
    /\ InitTables
    /\ auth = AuthFixture

Pks == DOMAIN tickets

\* the effect of a method call's result r on ticket pk
Commit(op, pk, r) ==
    /\ Len(history \o r.log) <= MaxHistory
    /\ tickets' = [tickets EXCEPT ![pk] = r.row]
    /\ history' = history \o r.log
    /\ obj' = r.self
    /\ last' = Call(op, pk, r.res)
    /\ UNCHANGED <<comments, now, auth, inflight, equipment>>

\* the clock advances; instants are counted from the request that creates
\* the ticket
Tick ==
    /\ tickets # <<>>
    /\ now < MaxTime
    /\ now' = now + 1
    /\ UNCHANGED <<tickets, history, comments, obj, last, auth, inflight, equipment>>

\* TicketCreateView.form_valid: the row is created with the model's defaults
\* and the due_date of the form, and one 'created' entry is written
CreateTicketDue(user, due_date) ==
    /\ TicketCreateView_allowed(user)
    /\ tickets = <<>>
    /\ LET pk == Len(tickets) + 1
           row == [status |-> STATUS_NEW, technician |-> NoUser, reporter |-> user,
                   due_date |-> due_date, created_at |-> At(now), closed_at |-> Unset]
       IN  /\ tickets' = Append(tickets, row)
           /\ history' = Append(history,
                  HistoryEntry(pk, user, ACTION_CREATED, Blank, row.status))
           /\ obj' = row
           /\ last' = Call("create", pk, OK)
    /\ UNCHANGED <<comments, now, auth, inflight, equipment>>

\* the form is posted without due_date (the field is optional)
CreateTicket(user) == CreateTicketDue(user, Unset)

\* ticket.change_status(new_status, changed_by, bypass_validation)
ChangeStatus(pk, new_status, changed_by, bypass) ==
    /\ LET r == change_status(pk, tickets[pk], tickets[pk], new_status, changed_by, bypass, now)
       IN  Commit("change_status", pk, r)

\* ticket.assign(technician, changed_by, bypass_validation)
Assign(pk, technician, changed_by, bypass) ==
    /\ LET r == assign(pk, tickets[pk], tickets[pk], technician, changed_by, bypass, now)
       IN  Commit("assign", pk, r)

\* ticket.start_work(changed_by, bypass_validation)
StartWork(pk, changed_by, bypass) ==
    /\ LET r == start_work(pk, tickets[pk], tickets[pk], changed_by, bypass, now)
       IN  Commit("start_work", pk, r)

\* ticket.close(changed_by, bypass_validation)
Close(pk, changed_by, bypass) ==
    /\ LET r == close(pk, tickets[pk], tickets[pk], changed_by, bypass, now)
       IN  Commit("close", pk, r)

\* POST to TicketUpdateView by a superuser with a valid form
AdminEdit(pk, user, new_status, new_technician) ==
    /\ TicketUpdateView_allowed(user)
    /\ LET r == TicketUpdateView_form_valid(pk, tickets[pk], tickets[pk], user,
                                            new_status, new_technician, now)
       IN  Commit("admin_edit", pk, r)

\* add_comment with a valid form: one Comment and one 'commented' entry
AddComment(pk, user) ==
    /\ add_comment_allowed(user, tickets[pk])
    /\ Len(history) < MaxHistory
    /\ comments' = Append(comments, [ticket |-> pk, author |-> user])
    /\ history' = Append(history, HistoryEntry(pk, user, ACTION_COMMENTED, Blank, Blank))
    /\ obj' = tickets[pk]
    /\ last' = Call("comment", pk, OK)
    /\ UNCHANGED <<tickets, now, auth, inflight, equipment>>

\* the changed_by and technician arguments the calls are made with
Callers == {"disp"}
TechnicianArgs == {"tech", "rep", NoUser}

\* calls of the model's methods with the given bypass_validation flags
MethodCalls(flags) ==
    \/ \E pk \in Pks, s \in STATUS_CHOICES, by \in Callers, b \in flags :
           ChangeStatus(pk, s, by, b)
    \/ \E pk \in Pks, u \in TechnicianArgs, by \in Callers, b \in flags :
           Assign(pk, u, by, b)
    \/ \E pk \in Pks, by \in Callers, b \in flags : StartWork(pk, by, b)
    \/ \E pk \in Pks, by \in Callers, b \in flags : Close(pk, by, b)

\* the requests that create a ticket and edit it directly
Requests ==
    \/ Tick
    \/ \E user \in Users : CreateTicket(user)
    \/ \E pk \in Pks, user \in Users, s \in STATUS_CHOICES,
          u \in TechnicianQueryset \cup {NoUser} : AdminEdit(pk, user, s, u)

\* every call of the model's methods, with and without bypass_validation,
\* and the administrator's direct edit
Next == Requests \/ MethodCalls(BOOLEAN)

Spec == Init /\ [][Next]_vars

\* what the application's views do: the methods are called without
\* bypass_validation, the only bypass is the administrator's direct edit,
\* and comments are added
NextApp ==
    \/ Requests
    \/ MethodCalls({FALSE})
    \/ \E pk \in Pks, user \in Users : AddComment(pk, user)

SpecApp == Init /\ [][NextApp]_vars

\* ticket creation and the calls of the model's methods with the transition
\* validation in force
NextValidated ==
    \/ Tick
    \/ \E user \in Users : CreateTicket(user)
    \/ MethodCalls({FALSE})

SpecValidated == Init /\ [][NextValidated]_vars

----------------------------------------------------------------------------
(* The SLA values: is_overdue, resolution_hours and the elapsed percent of  *)
(* the detail page, over a clock that counts minutes                       *)

\* the smallest of two numbers
min(a, b) == IF a < b THEN a ELSE b

\* variant of the SLA percent: the percent is not capped
sla_percent_uncapped(ticket, t) ==
    IF ticket.due_date # Unset /\ ticket.status # STATUS_CLOSED
    THEN LET total_seconds == 60 * (ticket.due_date[1] - ticket.created_at[1])
             elapsed_seconds == 60 * (t - ticket.created_at[1])
         IN  IF total_seconds > 0
             THEN At(round(elapsed_seconds * 100, total_seconds))
             ELSE Unset
    ELSE Unset

\* TicketDetailView.get_context_data: sla_percent at the instant t, None
\* (Unset) or a whole number
sla_percent(ticket, t) ==
    IF ticket.due_date # Unset /\ ticket.status # STATUS_CLOSED
    THEN LET total_seconds == 60 * (ticket.due_date[1] - ticket.created_at[1])
             elapsed_seconds == 60 * (t - ticket.created_at[1])
         IN  IF total_seconds > 0
             THEN At(min(100, round(elapsed_seconds * 100, total_seconds)))
             ELSE Unset
    ELSE Unset

\* TicketDetailView.get_context_data: sla_color, the severity band of the
\* progress bar
sla_color(ticket, t) ==
    LET percent == sla_percent(ticket, t)
    IN  IF percent = Unset THEN "success"
        ELSE IF percent[1] >= 100 THEN "danger"
        ELSE IF percent[1] >= 75 THEN "warning"
        ELSE IF percent[1] >= 50 THEN "info"
        ELSE "success"

\* the end of the clock, in minutes
MaxMinutes == 120

\* the minutes between two requests
ClockSteps == {58, 60, 62}

\* the due_date of the create form, in minutes from the request: an hour
\* ago, in an hour, in two hours
DueOffsets == {0 - 60, 60, 120}

\* time passes between two requests
Advance(d) ==
    /\ tickets # <<>>
    /\ now + d <= MaxMinutes
    /\ now' = now + d
    /\ UNCHANGED <<tickets, history, comments, obj, last, auth, inflight, equipment>>

\* TicketDetailView.get_context_data: the SLA values of the detail page
GetTicketContext(pk) ==
    /\ last' = [op |-> "context", pk |-> pk, res |-> OK,
                is_overdue |-> is_overdue(tickets[pk], now),
                sla_percent |-> sla_percent(tickets[pk], now),
                sla_color |-> sla_color(tickets[pk], now)]
    /\ UNCHANGED <<tickets, history, comments, now, obj, auth, inflight, equipment>>

\* ticket.resolution_hours()
ResolutionHours(pk) ==
    /\ last' = [op |-> "resolution_hours", pk |-> pk, res |-> OK,
                hours |-> resolution_hours(tickets[pk])]
    /\ UNCHANGED <<tickets, history, comments, now, obj, auth, inflight, equipment>>

\* tickets with and without due_date, the validated calls of the model's
\* methods, and the SLA values read at any instant
NextSLA ==
    \/ \E d \in ClockSteps : Advance(d)
    \/ \E user \in Callers : CreateTicket(user)
    \/ \E user \in Callers, off \in DueOffsets : CreateTicketDue(user, At(now + off))
    \/ MethodCalls({FALSE})
    \/ \E pk \in Pks : GetTicketContext(pk)
    \/ \E pk \in Pks : ResolutionHours(pk)

SpecSLA == Init /\ [][NextSLA]_vars

----------------------------------------------------------------------------
(* admin.py: the Django admin site, mounted at admin/ (mirmex_site/urls.py) *)

\* views.py: the history of a ticket as the detail page reads it,
\* ticket.history.order_by('timestamp')
TicketDetailView_history(pk) ==
    SelectSeq(history, LAMBDA e : e.ticket = pk)

\* the sequence s without its i-th element
Without(s, i) == SubSeq(s, 1, i - 1) \o SubSeq(s, i + 1, Len(s))

\* TicketHistoryAdmin, change view: a superuser saves entry i with another
\* action; only 'timestamp' is read-only
AdminSiteChangeHistory(user, i, action) ==
    /\ is_superuser(user)
    /\ i \in DOMAIN history
    /\ history' = [history EXCEPT ![i].action = action]
    /\ last' = Call("admin_site_change", history[i].ticket, OK)
    /\ UNCHANGED <<tickets, comments, now, obj, auth, inflight, equipment>>

\* TicketHistoryAdmin, delete view: a superuser deletes entry i
AdminSiteDeleteHistory(user, i) ==
    /\ is_superuser(user)
    /\ i \in DOMAIN history
    /\ history' = Without(history, i)
    /\ last' = Call("admin_site_delete", history[i].ticket, OK)
    /\ UNCHANGED <<tickets, comments, now, obj, auth, inflight, equipment>>

\* the action the change form of an entry is saved with
AdminSiteActions == {ACTION_EDITED}

\* ticket creation and the validated calls of the model's methods, and the
\* admin pages of the audit trail
NextAdminSite ==
    \/ Tick
    \/ \E user \in Users : CreateTicket(user)
    \/ MethodCalls({FALSE})
    \/ \E user \in Users, i \in DOMAIN history, action \in AdminSiteActions :
           AdminSiteChangeHistory(user, i, action)
    \/ \E user \in Users, i \in DOMAIN history : AdminSiteDeleteHistory(user, i)

SpecAdminSite == Init /\ [][NextAdminSite]_vars

----------------------------------------------------------------------------
(* views.py: the requests of authenticated users and their responses       *)

HTTP_OK == "200 OK"
HTTP_REDIRECT == "302 Found"
HTTP_FORBIDDEN == "403 Forbidden (PermissionDenied)"
HTTP_NOT_FOUND == "404 Not Found (Http404)"

\* the response to a request: the status code, the outcome of the model
\* method when one was called, the tickets shown, and the tickets that match
\* the filters of the request
Response(op, pk, user, code, res, shown, query) ==
    [op |-> op, pk |-> pk, res |-> res, user |-> user, code |-> code,
     shown |-> shown, query |-> query]

\* the ticket ids requests name: the stored ones, and while no ticket is
\* stored the first id, which is not found
RequestPks == IF Pks = {} THEN {Len(tickets) + 1} ELSE Pks

\* TicketListView.get_queryset; matching: the tickets the GET filters select
TicketListView_get_queryset(user, matching) ==
    LET queryset ==
            IF is_admin_or_dispatcher(user) THEN Pks
            ELSE IF is_technician(user)
                 THEN {pk \in Pks : tickets[pk].technician = user}
                 ELSE {pk \in Pks : tickets[pk].reporter = user}
    IN  queryset \cap matching

\* TicketDetailView.get_queryset
TicketDetailView_get_queryset(user) ==
    IF is_admin_or_dispatcher(user) THEN Pks
    ELSE IF is_technician(user)
         THEN {pk \in Pks : tickets[pk].technician = user}
         ELSE {pk \in Pks : tickets[pk].reporter = user}

\* TicketExportCSVView.get: the rows written
TicketExportCSVView_get(user, matching) ==
    LET queryset ==
            IF is_admin_or_dispatcher(user) THEN Pks
            ELSE IF is_technician(user)
                 THEN {pk \in Pks : tickets[pk].technician = user}
                 ELSE {pk \in Pks : tickets[pk].reporter = user}
    IN  queryset \cap matching

\* KanbanBoardView.get: the tickets of the columns
KanbanBoardView_get(user, show_closed) ==
    LET base_qs ==
            IF is_admin_or_dispatcher(user) THEN Pks
            ELSE IF is_technician(user)
                 THEN {pk \in Pks : tickets[pk].technician = user}
                 ELSE {pk \in Pks : tickets[pk].reporter = user}
    IN  IF show_closed THEN base_qs
        ELSE {pk \in base_qs : tickets[pk].status # STATUS_CLOSED}

\* variant of SearchView.get_queryset: a technician searches all tickets
SearchView_get_queryset_unscoped(user, q, matching) ==
    IF ~q THEN {}
    ELSE LET qs ==
                 IF is_admin_or_dispatcher(user) \/ is_technician(user) THEN Pks
                 ELSE {pk \in Pks : tickets[pk].reporter = user}
         IN  qs \cap matching

\* SearchView.get_queryset; q: the query string is not empty
SearchView_get_queryset(user, q, matching) ==
    IF ~q THEN {}
    ELSE LET qs ==
                 IF is_admin_or_dispatcher(user) THEN Pks
                 ELSE IF is_technician(user)
                      THEN {pk \in Pks : tickets[pk].technician = user}
                      ELSE {pk \in Pks : tickets[pk].reporter = user}
         IN  qs \cap matching

\* the access check of start_ticket and close_ticket
start_ticket_allowed(user, ticket) ==
    is_admin_or_dispatcher(user) \/ user = ticket.technician

\* a response that leaves the tables as they are
Answer(resp) ==
    /\ last' = resp
    /\ UNCHANGED <<tickets, history, comments, now, obj, auth, inflight, equipment>>

\* a response after a call of a model method with result r; extra: the
\* entries the view itself appends
Answer_after(resp, pk, r, extra) ==
    /\ Len(history \o r.log \o extra) <= MaxHistory
    /\ tickets' = [tickets EXCEPT ![pk] = r.row]
    /\ history' = history \o r.log \o extra
    /\ obj' = r.self
    /\ last' = resp
    /\ UNCHANGED <<comments, now, auth, inflight, equipment>>

\* GET tickets/
GetTicketList(user, matching) ==
    Answer(Response("list", 0, user, HTTP_OK, OK,
                    TicketListView_get_queryset(user, matching), matching))

\* GET tickets/<pk>/
GetTicketDetail(user, pk) ==
    IF pk \in TicketDetailView_get_queryset(user)
    THEN Answer(Response("detail", pk, user, HTTP_OK, OK, {pk}, {pk}))
    ELSE Answer(Response("detail", pk, user, HTTP_NOT_FOUND, OK, {}, {pk}))

\* GET tickets/export/
GetTicketExport(user, matching) ==
    Answer(Response("export", 0, user, HTTP_OK, OK,
                    TicketExportCSVView_get(user, matching), matching))

\* GET kanban/
GetKanban(user, show_closed) ==
    Answer(Response("kanban", 0, user, HTTP_OK, OK,
                    KanbanBoardView_get(user, show_closed),
                    IF show_closed THEN Pks
                    ELSE {pk \in Pks : tickets[pk].status # STATUS_CLOSED}))

\* GET search/
GetSearch(user, q, matching) ==
    Answer(Response("search", 0, user, HTTP_OK, OK,
                    SearchView_get_queryset(user, q, matching),
                    IF q THEN matching ELSE {}))

\* variant of the create request: the reporter is left as the form gives it,
\* empty, and the entry is written with the model's default action
PostCreate_plain_save(user) ==
    IF ~TicketCreateView_allowed(user)
    THEN Answer(Response("create", 0, user, HTTP_FORBIDDEN, OK, {}, {}))
    ELSE /\ tickets = <<>>
         /\ LET pk == Len(tickets) + 1
                row == [status |-> STATUS_NEW, technician |-> NoUser, reporter |-> NoUser,
                        due_date |-> Unset, created_at |-> At(now), closed_at |-> Unset]
            IN  /\ tickets' = Append(tickets, row)
                /\ history' = Append(history,
                       HistoryEntry(pk, user, ACTION_STATUS_CHANGED, Blank, row.status))
                /\ obj' = row
                /\ last' = Response("create", pk, user, HTTP_REDIRECT, OK, {}, {})
         /\ UNCHANGED <<comments, now, auth, inflight, equipment>>

\* POST tickets/create/ with a valid form without due_date
PostCreate(user) ==
    IF ~TicketCreateView_allowed(user)
    THEN Answer(Response("create", 0, user, HTTP_FORBIDDEN, OK, {}, {}))
    ELSE /\ tickets = <<>>
         /\ LET pk == Len(tickets) + 1
                row == [status |-> STATUS_NEW, technician |-> NoUser, reporter |-> user,
                        due_date |-> Unset, created_at |-> At(now), closed_at |-> Unset]
            IN  /\ tickets' = Append(tickets, row)
                /\ history' = Append(history,
                       HistoryEntry(pk, user, ACTION_CREATED, Blank, row.status))
                /\ obj' = row
                /\ last' = Response("create", pk, user, HTTP_REDIRECT, OK, {}, {})
         /\ UNCHANGED <<comments, now, auth, inflight, equipment>>

\* POST tickets/<pk>/assign/; technician: the user id posted
PostAssign(user, pk, technician) ==
    IF pk \notin Pks
    THEN Answer(Response("assign", pk, user, HTTP_NOT_FOUND, OK, {}, {}))
    ELSE IF ~is_admin_or_dispatcher(user)
    THEN Answer(Response("assign", pk, user, HTTP_FORBIDDEN, OK, {}, {}))
    ELSE IF technician \notin Users
    THEN Answer(Response("assign", pk, user, HTTP_NOT_FOUND, OK, {}, {}))
    ELSE LET r == assign(pk, tickets[pk], tickets[pk], technician, user, FALSE, now)
         IN  Answer_after(Response("assign", pk, user, HTTP_REDIRECT, r.res, {}, {}),
                          pk, r, <<>>)

\* variant of start_ticket: the method is called before the access check
PostStart_checks_after_call(user, pk) ==
    IF pk \notin Pks
    THEN Answer(Response("start", pk, user, HTTP_NOT_FOUND, OK, {}, {}))
    ELSE LET r == start_work(pk, tickets[pk], tickets[pk], user, FALSE, now)
         IN  Answer_after(Response("start", pk, user,
                                   IF start_ticket_allowed(user, tickets[pk])
                                   THEN HTTP_REDIRECT ELSE HTTP_FORBIDDEN,
                                   r.res, {}, {}),
                          pk, r, <<>>)

\* tickets/<pk>/start/
PostStart(user, pk) ==
    IF pk \notin Pks
    THEN Answer(Response("start", pk, user, HTTP_NOT_FOUND, OK, {}, {}))
    ELSE IF ~start_ticket_allowed(user, tickets[pk])
    THEN Answer(Response("start", pk, user, HTTP_FORBIDDEN, OK, {}, {}))
    ELSE LET r == start_work(pk, tickets[pk], tickets[pk], user, FALSE, now)
         IN  Answer_after(Response("start", pk, user, HTTP_REDIRECT, r.res, {}, {}),
                          pk, r, <<>>)

\* variant of close_ticket: the resolution comment is logged whether or not
\* the close was accepted
PostClose_logs_comment_always(user, pk, resolution_comment) ==
    IF pk \notin Pks
    THEN Answer(Response("close", pk, user, HTTP_NOT_FOUND, OK, {}, {}))
    ELSE IF ~start_ticket_allowed(user, tickets[pk])
    THEN Answer(Response("close", pk, user, HTTP_FORBIDDEN, OK, {}, {}))
    ELSE LET r == close(pk, tickets[pk], tickets[pk], user, FALSE, now)
         IN  Answer_after(Response("close", pk, user, HTTP_REDIRECT, r.res, {}, {}),
                          pk, r,
                          IF resolution_comment
                          THEN <<HistoryEntry(pk, user, ACTION_COMMENTED, Blank, Blank)>>
                          ELSE <<>>)

\* tickets/<pk>/close/; resolution_comment: the posted comment is not empty
PostClose(user, pk, resolution_comment) ==
    IF pk \notin Pks
    THEN Answer(Response("close", pk, user, HTTP_NOT_FOUND, OK, {}, {}))
    ELSE IF ~start_ticket_allowed(user, tickets[pk])
    THEN Answer(Response("close", pk, user, HTTP_FORBIDDEN, OK, {}, {}))
    ELSE LET r == close(pk, tickets[pk], tickets[pk], user, FALSE, now)
         IN  Answer_after(Response("close", pk, user, HTTP_REDIRECT, r.res, {}, {}),
                          pk, r,
                          IF r.res = OK /\ resolution_comment
                          THEN <<HistoryEntry(pk, user, ACTION_COMMENTED, Blank, Blank)>>
                          ELSE <<>>)

\* POST tickets/<pk>/comment/ with a valid form
PostComment(user, pk) ==
    IF pk \notin Pks
    THEN Answer(Response("comment", pk, user, HTTP_NOT_FOUND, OK, {}, {}))
    ELSE IF ~add_comment_allowed(user, tickets[pk])
    THEN Answer(Response("comment", pk, user, HTTP_FORBIDDEN, OK, {}, {}))
    ELSE /\ Len(history) < MaxHistory
         /\ comments' = Append(comments, [ticket |-> pk, author |-> user])
         /\ history' = Append(history,
                HistoryEntry(pk, user, ACTION_COMMENTED, Blank, Blank))
         /\ obj' = tickets[pk]
         /\ last' = Response("comment", pk, user, HTTP_REDIRECT, OK, {}, {})
         /\ UNCHANGED <<tickets, now, auth, inflight, equipment>>

\* POST tickets/<pk>/edit/ with a valid form; dispatch checks the user before
\* the ticket is looked up
PostEdit(user, pk, new_status, new_technician) ==
    IF ~TicketUpdateView_allowed(user)
    THEN Answer(Response("edit", pk, user, HTTP_FORBIDDEN, OK, {}, {}))
    ELSE IF pk \notin Pks
    THEN Answer(Response("edit", pk, user, HTTP_NOT_FOUND, OK, {}, {}))
    ELSE LET r == TicketUpdateView_form_valid(pk, tickets[pk], tickets[pk], user,
                                              new_status, new_technician, now)
         IN  Answer_after(Response("edit", pk, user, HTTP_REDIRECT, r.res, {}, {}),
                          pk, r, <<>>)

\* the accounts of the views: the superuser, the dispatcher and the
\* technician as above, and one account that is in no group, in 'reporter',
\* in 'dispatcher', in 'admin' without the superuser flag, or in both
\* 'technician' and 'reporter'
ViewProfiles ==
    {Profile(FALSE, {}), Profile(FALSE, {"reporter"}), Profile(FALSE, {"dispatcher"}),
     Profile(FALSE, {"admin"}), Profile(FALSE, {"technician", "reporter"})}

\* the users that send the requests
Actors == {"root", "tech", "rep"}

InitViews ==
    /\ InitTables
    /\ \E p \in ViewProfiles : auth = [AuthFixture EXCEPT !["rep"] = p]

\* the statuses posted to the edit view: a ticket is closed or reopened
EditStatuses == {STATUS_NEW, STATUS_CLOSED}

\* the requests of the users; an input that the handler does not get to read
\* (the ticket is missing or the user is turned away) is not varied
NextViews ==
    \/ \E user \in Actors, matching \in SUBSET Pks : GetTicketList(user, matching)
    \/ \E user \in Actors, pk \in RequestPks : GetTicketDetail(user, pk)
    \/ \E user \in Actors, matching \in SUBSET Pks : GetTicketExport(user, matching)
    \/ \E user \in Actors, show_closed \in BOOLEAN : GetKanban(user, show_closed)
    \/ \E user \in Actors, q \in BOOLEAN :
           \E matching \in (IF q THEN SUBSET Pks ELSE {{}}) :
               GetSearch(user, q, matching)
    \/ \E user \in Actors : PostCreate(user)
    \/ \E user \in Actors, pk \in RequestPks :
           \E u \in (IF pk \in Pks /\ is_admin_or_dispatcher(user)
                      THEN TechnicianArgs ELSE {NoUser}) :
               PostAssign(user, pk, u)
    \/ \E user \in Actors, pk \in RequestPks : PostStart(user, pk)
    \/ \E user \in Actors, pk \in RequestPks :
           \E c \in (IF pk \in Pks THEN BOOLEAN ELSE {FALSE}) :
               PostClose(user, pk, c)
    \/ \E user \in Actors, pk \in RequestPks : PostComment(user, pk)
    \/ \E user \in Actors, pk \in RequestPks :
           \E s \in (IF pk \in Pks /\ TicketUpdateView_allowed(user)
                      THEN EditStatuses ELSE {STATUS_NEW}) :
               PostEdit(user, pk, s, NoUser)

SpecViews == InitViews /\ [][NextViews]_vars

\* request.user of a request without session: django's AnonymousUser, which
\* is no superuser and is in no group
AnonymousUser == "AnonymousUser"

\* the redirect of login_required to settings.LOGIN_URL
HTTP_LOGIN == "302 Found (/accounts/login/)"

\* assign_ticket, start_ticket, close_ticket, add_comment without session:
\* login_required answers before the view runs
AnonymousPost(op, pk) ==
    /\ op \in {"assign", "start", "close", "comment"}
    /\ Answer(Response(op, pk, AnonymousUser, HTTP_LOGIN, OK, {}, {}))

\* POST tickets/create/ without session: TicketCreateView.dispatch tests the
\* user before LoginRequiredMixin gets to run
AnonymousCreate ==
    Answer(Response("create", 0, AnonymousUser, HTTP_FORBIDDEN, OK, {}, {}))

\* POST tickets/<pk>/edit/ without session: TicketUpdateView.dispatch tests
\* the user before LoginRequiredMixin gets to run
AnonymousEdit(pk) ==
    Answer(Response("edit", pk, AnonymousUser, HTTP_FORBIDDEN, OK, {}, {}))

\* the requests that write, from the users and without session
NextWrites ==
    \/ \E user \in Actors : PostCreate(user)
    \/ \E user \in Actors, pk \in RequestPks :
           \E u \in (IF pk \in Pks /\ is_admin_or_dispatcher(user)
                      THEN TechnicianArgs ELSE {NoUser}) :
               PostAssign(user, pk, u)
    \/ \E user \in Actors, pk \in RequestPks : PostStart(user, pk)
    \/ \E user \in Actors, pk \in RequestPks :
           \E c \in (IF pk \in Pks THEN BOOLEAN ELSE {FALSE}) :
               PostClose(user, pk, c)
    \/ \E user \in Actors, pk \in RequestPks : PostComment(user, pk)
    \/ \E user \in Actors, pk \in RequestPks :
           \E s \in (IF pk \in Pks /\ TicketUpdateView_allowed(user)
                      THEN EditStatuses ELSE {STATUS_NEW}) :
               PostEdit(user, pk, s, NoUser)
    \/ \E op \in {"assign", "start", "close", "comment"}, pk \in RequestPks :
           AnonymousPost(op, pk)
    \/ AnonymousCreate
    \/ \E pk \in RequestPks : AnonymousEdit(pk)

SpecWrites == InitViews /\ [][NextWrites]_vars

\* the requests of the views that are open to users who are no superusers:
\* create, assign, start, close and comment
NextLifecycle ==
    \/ \E user \in Actors : PostCreate(user)
    \/ \E user \in Actors, pk \in RequestPks :
           \E u \in (IF pk \in Pks /\ is_admin_or_dispatcher(user)
                      THEN TechnicianArgs ELSE {NoUser}) :
               PostAssign(user, pk, u)
    \/ \E user \in Actors, pk \in RequestPks : PostStart(user, pk)
    \/ \E user \in Actors, pk \in RequestPks :
           \E c \in (IF pk \in Pks THEN BOOLEAN ELSE {FALSE}) :
               PostClose(user, pk, c)
    \/ \E user \in Actors, pk \in RequestPks : PostComment(user, pk)

SpecLifecycle == InitViews /\ [][NextLifecycle]_vars

----------------------------------------------------------------------------
(* views.py: user management                                               *)

\* forms.py: UserEditForm.ROLE_CHOICES
ROLE_CHOICES == {"reporter", "dispatcher", "technician", "admin"}

\* user_edit: the role the form is opened with
user_edit_current_role(target_user) ==
    IF is_superuser(target_user) \/ "admin" \in groups(target_user) THEN "admin"
    ELSE IF "dispatcher" \in groups(target_user) THEN "dispatcher"
    ELSE IF "technician" \in groups(target_user) THEN "technician"
    ELSE "reporter"

\* the response to a user management request about target
AccountResponse(op, user, target, code, role) ==
    [op |-> op, pk |-> 0, res |-> role, user |-> user, code |-> code,
     target |-> target]

\* GET users/<pk>/edit/
GetUserEdit(user, target) ==
    /\ last' = IF ~is_admin_or_dispatcher(user)
               THEN AccountResponse("user_edit_form", user, target, HTTP_FORBIDDEN, Blank)
               ELSE AccountResponse("user_edit_form", user, target, HTTP_OK,
                                    user_edit_current_role(target))
    /\ UNCHANGED <<tickets, history, comments, now, obj, auth, inflight, equipment>>

\* POST users/<pk>/edit/ with a valid form: the groups of the target are
\* cleared and the group of the new role is added, unless the role is admin
PostUserEdit(user, target, new_role) ==
    IF ~is_admin_or_dispatcher(user)
    THEN /\ last' = AccountResponse("user_edit", user, target, HTTP_FORBIDDEN, new_role)
         /\ UNCHANGED <<tickets, history, comments, now, obj, auth, inflight, equipment>>
    ELSE /\ auth' = [auth EXCEPT ![target].groups =
                         IF new_role # "admin" THEN {new_role} ELSE {}]
         /\ last' = AccountResponse("user_edit", user, target, HTTP_REDIRECT, new_role)
         /\ UNCHANGED <<tickets, history, comments, now, obj, inflight, equipment>>

\* GET users/: the users listed
GetUserList(user) ==
    /\ last' = IF ~is_admin_or_dispatcher(user)
               THEN [op |-> "user_list", pk |-> 0, res |-> OK, user |-> user,
                     code |-> HTTP_FORBIDDEN, shown |-> {}]
               ELSE [op |-> "user_list", pk |-> 0, res |-> OK, user |-> user,
                     code |-> HTTP_OK, shown |-> Users]
    /\ UNCHANGED <<tickets, history, comments, now, obj, auth, inflight, equipment>>

\* models.py: Equipment.STATUS_CHOICES
STATUS_IN_USE == "in_use"
STATUS_IN_REPAIR == "in_repair"
STATUS_STORAGE == "storage"

Equipment_STATUS_CHOICES == {STATUS_IN_USE, STATUS_IN_REPAIR, STATUS_STORAGE}

\* the response to an equipment request
EquipmentResponse(op, pk, user, code) ==
    [op |-> op, pk |-> pk, res |-> OK, user |-> user, code |-> code]

\* POST equipment/create/ with a valid form
PostEquipmentCreate(user, status) ==
    IF ~is_admin_or_dispatcher(user)
    THEN /\ last' = EquipmentResponse("equipment_create", 0, user, HTTP_FORBIDDEN)
         /\ UNCHANGED <<tickets, history, comments, now, obj, auth, inflight, equipment>>
    ELSE /\ equipment = <<>>
         /\ equipment' = Append(equipment, [status |-> status])
         /\ last' = EquipmentResponse("equipment_create", Len(equipment) + 1, user,
                                      HTTP_REDIRECT)
         /\ UNCHANGED <<tickets, history, comments, now, obj, auth, inflight>>

\* POST equipment/<pk>/edit/ with a valid form; dispatch checks the user
\* before the row is looked up
PostEquipmentUpdate(user, pk, status) ==
    IF ~is_admin_or_dispatcher(user)
    THEN /\ last' = EquipmentResponse("equipment_edit", pk, user, HTTP_FORBIDDEN)
         /\ UNCHANGED <<tickets, history, comments, now, obj, auth, inflight, equipment>>
    ELSE IF pk \notin DOMAIN equipment
    THEN /\ last' = EquipmentResponse("equipment_edit", pk, user, HTTP_NOT_FOUND)
         /\ UNCHANGED <<tickets, history, comments, now, obj, auth, inflight, equipment>>
    ELSE /\ equipment' = [equipment EXCEPT ![pk].status = status]
         /\ last' = EquipmentResponse("equipment_edit", pk, user, HTTP_REDIRECT)
         /\ UNCHANGED <<tickets, history, comments, now, obj, auth, inflight>>

\* the accounts as above, one of them with any superuser flag and any groups
InitAccounts ==
    /\ InitTables
    /\ \E su \in BOOLEAN, gs \in SUBSET Groups :
           auth = [AuthFixture EXCEPT !["rep"] = Profile(su, gs)]

NextAccounts ==
    \/ \E user \in Users, target \in Users : GetUserEdit(user, target)
    \/ \E user \in Users, target \in Users :
           \E new_role \in (IF is_admin_or_dispatcher(user)
                             THEN ROLE_CHOICES ELSE {"reporter"}) :
               PostUserEdit(user, target, new_role)
    \/ \E user \in Users : GetUserList(user)
    \/ \E user \in Users : PostEquipmentCreate(user, STATUS_IN_USE)
    \/ \E user \in Users :
           \E status \in (IF is_admin_or_dispatcher(user) /\ equipment # <<>>
                           THEN {STATUS_IN_USE, STATUS_IN_REPAIR} ELSE {STATUS_IN_USE}) :
               PostEquipmentUpdate(user, 1, status)

SpecAccounts == InitAccounts /\ [][NextAccounts]_vars

\* context_processors.py: the role the templates are given for a user who is
\* logged in
user_role(user) ==
    IF is_superuser(user) THEN "admin"
    ELSE IF "dispatcher" \in groups(user) THEN "dispatcher"
    ELSE IF "technician" \in groups(user) THEN "technician"
    ELSE IF "admin" \in groups(user) THEN "admin"
    ELSE "reporter"

\* a page is rendered for user: the context processor computes the role for
\* the template, next to the role the views compute
RenderPage(user) ==
    /\ last' = [op |-> "render", pk |-> 0, res |-> OK, user |-> user,
                code |-> HTTP_OK, user_role |-> user_role(user),
                get_user_role |-> get_user_role(user)]
    /\ UNCHANGED <<tickets, history, comments, now, obj, auth, inflight, equipment>>

\* the role of an account is edited, and pages are rendered for it
NextRoles ==
    \/ \E user \in Users, target \in Users : GetUserEdit(user, target)
    \/ \E user \in Users, target \in Users :
           \E new_role \in (IF is_admin_or_dispatcher(user)
                             THEN ROLE_CHOICES ELSE {"reporter"}) :
               PostUserEdit(user, target, new_role)
    \/ \E user \in Users : RenderPage(user)

SpecRoles == InitAccounts /\ [][NextRoles]_vars

----------------------------------------------------------------------------
(* Requests served side by side: nothing in the code locks the row or wraps *)
(* the request in a transaction, so a request is two steps, the load of the *)
(* object and the method call on it                                        *)

Request(op, pk, self, arg, by) ==
    [op |-> op, pk |-> pk, self |-> self, arg |-> arg, by |-> by]

\* worker w loads ticket pk for a call of op with argument arg
Begin(w, op, pk, arg, by) ==
    /\ inflight[w] = Idle
    /\ inflight' = [inflight EXCEPT ![w] = Request(op, pk, tickets[pk], arg, by)]
    /\ UNCHANGED <<tickets, history, comments, now, obj, last, auth, equipment>>

\* the method call of the request worker w is serving, on the object it
\* loaded, against the row as it is stored now
Serve(q) ==
    CASE q.op = "change_status" ->
             change_status(q.pk, q.self, tickets[q.pk], q.arg, q.by, FALSE, now)
      [] q.op = "assign" ->
             assign(q.pk, q.self, tickets[q.pk], q.arg, q.by, FALSE, now)
      [] q.op = "start_work" ->
             start_work(q.pk, q.self, tickets[q.pk], q.by, FALSE, now)
      [] q.op = "close" ->
             close(q.pk, q.self, tickets[q.pk], q.by, FALSE, now)

\* worker w runs the method and answers
Finish(w) ==
    /\ inflight[w] # Idle
    /\ LET q == inflight[w]
           r == Serve(q)
       IN  /\ Len(history \o r.log) <= MaxHistory
           /\ tickets' = [tickets EXCEPT ![q.pk] = r.row]
           /\ history' = history \o r.log
           /\ obj' = r.self
           /\ last' = Call(q.op, q.pk, r.res)
    /\ inflight' = [inflight EXCEPT ![w] = Idle]
    /\ UNCHANGED <<comments, now, auth, equipment>>

NextConcurrent ==
    \/ Tick
    \/ \E user \in Callers : CreateTicket(user)
    \/ \E w \in Workers, pk \in Pks, s \in STATUS_CHOICES, by \in Callers :
           Begin(w, "change_status", pk, s, by)
    \/ \E w \in Workers, pk \in Pks, u \in TechnicianArgs, by \in Callers :
           Begin(w, "assign", pk, u, by)
    \/ \E w \in Workers, pk \in Pks, by \in Callers :
           Begin(w, "start_work", pk, Blank, by)
    \/ \E w \in Workers, pk \in Pks, by \in Callers :
           Begin(w, "close", pk, Blank, by)
    \/ \E w \in Workers : Finish(w)

SpecConcurrent == Init /\ [][NextConcurrent]_vars

----------------------------------------------------------------------------
(* Properties                                                              *)

\* the transition table as the specification states it (section 4.1)
TransitionTable ==
    [s \in STATUS_CHOICES |->
        CASE s = "new"         -> {"assigned", "closed"}
          [] s = "assigned"    -> {"in_progress", "closed"}
          [] s = "in_progress" -> {"closed"}
          [] s = "closed"      -> {}]

\* the step leaves the stored tickets and the audit trail as they are
Untouched == tickets' = tickets /\ history' = history

\* the step appends exactly the entries es to the audit trail
Appends(es) == history' = history \o es

\* a status_changed entry, field by field
StatusChangedEntry(pk, by, old, new) ==
    [ticket |-> pk, changed_by |-> by, action |-> "status_changed",
     old_status |-> old, new_status |-> new]

\* an assigned entry, field by field
AssignedEntry(pk, by) ==
    [ticket |-> pk, changed_by |-> by, action |-> "assigned",
     old_status |-> "", new_status |-> ""]

\* C1: change_status(to) without bypass on a ticket whose status is `from`,
\* for (from, to) not an edge of the transition table, fails with the
\* invalid-transition validation error and leaves the ticket's status,
\* closed_at and the audit trail unchanged.
C1_NonEdgeRejected ==
    [][\A pk \in Pks, to \in STATUS_CHOICES, by \in Callers :
          (/\ to \notin TransitionTable[tickets[pk].status]
           /\ ChangeStatus(pk, to, by, FALSE))
          => (/\ last'.res = ERR_INVALID_TRANSITION
              /\ tickets'[pk].status = tickets[pk].status
              /\ tickets'[pk].closed_at = tickets[pk].closed_at
              /\ Untouched)]_vars

\* C1: a change_status call from in_progress was rejected
C1_Witness ==
    /\ last.op = "change_status"
    /\ last.res = ERR_INVALID_TRANSITION
    /\ tickets[last.pk].status = STATUS_IN_PROGRESS

\* C2 as stated: every change of a ticket's stored status, by any operation
\* including the administrator's direct edit, goes along an edge of the
\* transition table.
C2_EveryChangeAlongEdge ==
    [][\A pk \in Pks :
          tickets'[pk].status # tickets[pk].status
          => tickets'[pk].status \in TransitionTable[tickets[pk].status]]_vars

\* C2 amended: every change of a ticket's stored status made by assign,
\* start_work, close or change_status called without bypass goes along an edge
\* of the transition table; create and comment change no status; only the
\* administrator's direct edit moves the status off the graph.
C2_MethodsFollowEdges ==
    [][\A pk \in Pks :
          (tickets'[pk].status # tickets[pk].status /\ last'.op # "admin_edit")
          => (/\ last'.op \in {"assign", "start_work", "close", "change_status"}
              /\ tickets'[pk].status \in TransitionTable[tickets[pk].status])]_vars

\* C2: start_work has just moved a ticket from assigned to in_progress
C2_Witness ==
    /\ last.op = "start_work"
    /\ last.res = OK
    /\ tickets[last.pk].status = STATUS_IN_PROGRESS
    /\ history[Len(history)].old_status = STATUS_ASSIGNED

\* C3: in every reachable state, closed_at is non-null if and only if the
\* status is closed (the administrator's direct edit included).
C3_ClosedAtIffClosed ==
    \A pk \in Pks : (tickets[pk].closed_at # Unset) <=> (tickets[pk].status = STATUS_CLOSED)

\* C4: closed_at is written exactly once, by the operation that first brings
\* the ticket to closed, and with the instant of that operation; once it is
\* non-null no operation changes it; and a ticket that is already closed
\* accepts no non-bypass transition into closed and gets no further entry
\* that records a move into closed.
C4_ClosedAtWrittenOnce ==
    [][\A pk \in Pks :
          LET old == tickets[pk]
              new == tickets'[pk]
          IN  /\ old.closed_at # Unset => new.closed_at = old.closed_at
              /\ (old.closed_at = Unset /\ new.status = STATUS_CLOSED)
                    => new.closed_at = At(now)
              /\ (old.closed_at = Unset /\ new.closed_at # Unset)
                    => (old.status # STATUS_CLOSED /\ new.status = STATUS_CLOSED)
              /\ old.status = STATUS_CLOSED
                    => /\ \A i \in DOMAIN history' \ DOMAIN history :
                              history'[i].new_status # STATUS_CLOSED
                       /\ \A by \in Callers :
                              (Close(pk, by, FALSE) \/ ChangeStatus(pk, STATUS_CLOSED, by, FALSE))
                              => last'.res = ERR_INVALID_TRANSITION]_vars

\* C4: a later call was accepted on a ticket closed at an earlier instant, and
\* closed_at still holds that instant
C4_Witness ==
    /\ last.op \in {"close", "change_status", "admin_edit"}
    /\ last.res = OK
    /\ now = 1
    /\ tickets[last.pk].status = STATUS_CLOSED
    /\ tickets[last.pk].closed_at = At(0)

\* C5: once the status is closed, every assign, start_work, close and
\* change_status call made without bypass is rejected and the status stays
\* closed.
C5_ClosedIsTerminal ==
    [][\A pk \in Pks, by \in Callers :
          (/\ tickets[pk].status = STATUS_CLOSED
           /\ \/ \E s \in STATUS_CHOICES : ChangeStatus(pk, s, by, FALSE)
              \/ \E u \in TechnicianArgs : Assign(pk, u, by, FALSE)
              \/ StartWork(pk, by, FALSE)
              \/ Close(pk, by, FALSE))
          => (/\ last'.res # OK
              /\ tickets'[pk].status = STATUS_CLOSED
              /\ Untouched)]_vars

\* C5: an assign on a closed ticket was rejected as an invalid transition
C5_Witness ==
    /\ last.op = "assign"
    /\ last.res = ERR_INVALID_TRANSITION
    /\ tickets[last.pk].status = STATUS_CLOSED

\* C6: every accepted change_status call that changes the status, with or
\* without bypass, appends exactly one audit entry, with action
\* status_changed, old_status the status before the call and new_status the
\* status after it.
C6_OneEntryPerChange ==
    [][\A pk \in Pks, s \in STATUS_CHOICES, by \in Callers, b \in BOOLEAN :
          (/\ ChangeStatus(pk, s, by, b)
           /\ last'.res = OK
           /\ tickets'[pk].status # tickets[pk].status)
          => Appends(<<StatusChangedEntry(pk, by, tickets[pk].status,
                                          tickets'[pk].status)>>)]_vars

\* C6: a bypassing change_status has moved a closed ticket to in_progress and
\* the trail ends with the entry of that move
C6_Witness ==
    /\ last.op = "change_status"
    /\ last.res = OK
    /\ tickets[last.pk].status = STATUS_IN_PROGRESS
    /\ history[Len(history)].action = ACTION_STATUS_CHANGED
    /\ history[Len(history)].old_status = STATUS_CLOSED
    /\ history[Len(history)].new_status = STATUS_IN_PROGRESS

\* C7 as stated: change_status(s) with bypass_validation=False on a ticket
\* whose status is already s is accepted, leaves the ticket unchanged and
\* appends no audit entry.
C7_SameStatusAccepted ==
    [][\A pk \in Pks, by \in Callers :
          ChangeStatus(pk, tickets[pk].status, by, FALSE)
          => (last'.res = OK /\ Untouched)]_vars

\* C7 amended: change_status(s) on a ticket whose status is already s is an
\* accepted no-op only with bypass_validation=True: it then leaves the ticket
\* unchanged and appends no audit entry; with the default
\* bypass_validation=False it is rejected as an invalid transition, and the
\* ticket and the trail are unchanged as well.
C7_SameStatusNoOpOnlyUnderBypass ==
    [][\A pk \in Pks, by \in Callers :
          /\ ChangeStatus(pk, tickets[pk].status, by, TRUE)
                => (last'.res = OK /\ Untouched)
          /\ ChangeStatus(pk, tickets[pk].status, by, FALSE)
                => (last'.res = ERR_INVALID_TRANSITION /\ Untouched)]_vars

\* C7: a change_status call was accepted on a ticket whose trail has no entry
\* but the one of its creation: the call was a no-op
C7_Witness ==
    /\ last.op = "change_status"
    /\ last.res = OK
    /\ Len(history) = 1
    /\ history[1].action = ACTION_CREATED
    /\ tickets[last.pk].status = STATUS_NEW

\* C8: assign with an empty technician fails with the missing-technician
\* validation error, whatever the status and the bypass flag, and leaves the
\* ticket's technician, status, closed_at and the audit trail unchanged.
C8_EmptyTechnicianRejected ==
    [][\A pk \in Pks, by \in Callers, b \in BOOLEAN :
          Assign(pk, NoUser, by, b)
          => (/\ last'.res = ERR_MISSING_TECHNICIAN
              /\ tickets'[pk].technician = tickets[pk].technician
              /\ tickets'[pk].status = tickets[pk].status
              /\ tickets'[pk].closed_at = tickets[pk].closed_at
              /\ Untouched)]_vars

\* C8: an assign without technician was rejected on a ticket in progress
C8_Witness ==
    /\ last.op = "assign"
    /\ last.res = ERR_MISSING_TECHNICIAN
    /\ tickets[last.pk].status = STATUS_IN_PROGRESS

\* C9: assign(tech) with a technician on a ticket in status new succeeds,
\* yields status assigned and technician tech, and appends exactly two audit
\* entries: status_changed (new to assigned), then assigned.
C9_AssignFromNew ==
    [][\A pk \in Pks, u \in TechnicianArgs \ {NoUser}, by \in Callers, b \in BOOLEAN :
          (tickets[pk].status = STATUS_NEW /\ Assign(pk, u, by, b))
          => (/\ last'.res = OK
              /\ tickets'[pk].status = STATUS_ASSIGNED
              /\ tickets'[pk].technician = u
              /\ Appends(<<StatusChangedEntry(pk, by, "new", "assigned"),
                          AssignedEntry(pk, by)>>))]_vars

\* C9: an assign was accepted on a new ticket: the trail is created,
\* status_changed, assigned
C9_Witness ==
    /\ last.op = "assign"
    /\ last.res = OK
    /\ tickets[last.pk].status = STATUS_ASSIGNED
    /\ tickets[last.pk].technician # NoUser
    /\ Len(history) = 3
    /\ history[2].action = ACTION_STATUS_CHANGED
    /\ history[3].action = ACTION_ASSIGNED

\* C10: assign with a technician and without bypass on a ticket whose status
\* is assigned, in_progress or closed is rejected as an invalid transition;
\* no assign without bypass changes the stored technician of a ticket that has
\* left new.
C10_NoReassign ==
    [][\A pk \in Pks, u \in TechnicianArgs, by \in Callers :
          (tickets[pk].status # STATUS_NEW /\ Assign(pk, u, by, FALSE))
          => (/\ u # NoUser => last'.res = ERR_INVALID_TRANSITION
              /\ last'.res # OK
              /\ tickets'[pk].technician = tickets[pk].technician
              /\ Untouched)]_vars

\* C10: an assign naming another technician was rejected on an assigned
\* ticket, whose stored technician is the one assigned first
C10_Witness ==
    /\ last.op = "assign"
    /\ last.res = ERR_INVALID_TRANSITION
    /\ tickets[last.pk].status = STATUS_ASSIGNED
    /\ tickets[last.pk].technician # NoUser
    /\ obj.technician # NoUser
    /\ obj.technician # tickets[last.pk].technician

\* C11: a rejected assign, start_work or close leaves the stored ticket and the
\* audit trail as they were, and leaves the ticket object the caller holds
\* equal to the object it held before the call (the freshly loaded row).
C11_RejectedLeavesNoTrace ==
    [][\A pk \in Pks, by \in Callers, b \in BOOLEAN :
          (/\ \/ \E u \in TechnicianArgs : Assign(pk, u, by, b)
              \/ StartWork(pk, by, b)
              \/ Close(pk, by, b)
           /\ last'.res # OK)
          => (/\ Untouched
              /\ obj' = tickets[pk])]_vars

\* C12: start_work on a ticket without technician fails with the
\* no-technician validation error, whatever the status and the bypass flag,
\* and leaves the ticket and the trail unchanged; on a ticket with a
\* technician its outcome, the stored ticket and the entries appended are
\* those of change_status(in_progress) with the same actor and bypass flag;
\* without bypass it is accepted only from status assigned.
C12_StartWork ==
    [][\A pk \in Pks, by \in Callers, b \in BOOLEAN :
          StartWork(pk, by, b)
          => IF tickets[pk].technician = NoUser
             THEN last'.res = ERR_NO_TECHNICIAN /\ Untouched
             ELSE LET r == change_status(pk, tickets[pk], tickets[pk],
                                         "in_progress", by, b, now)
                  IN  /\ last'.res = r.res
                      /\ tickets' = [tickets EXCEPT ![pk] = r.row]
                      /\ Appends(r.log)
                      /\ (~b /\ last'.res = OK) => tickets[pk].status = "assigned"
                      /\ last'.res = OK => tickets'[pk].status = "in_progress"
                      /\ (~b /\ tickets[pk].status = "assigned") => last'.res = OK]_vars

\* C12: start_work was rejected for want of a technician on a ticket whose
\* status is assigned
C12_Witness ==
    /\ last.op = "start_work"
    /\ last.res = ERR_NO_TECHNICIAN
    /\ tickets[last.pk].status = STATUS_ASSIGNED
    /\ tickets[last.pk].technician = NoUser

\* C13: nothing serializes the read-validate-write sequence of change_status.
\* A non-bypass change_status call served beside other requests is validated
\* against the status it read when it loaded the ticket, whatever the status
\* stored by then: it is accepted exactly when its target is an allowed
\* target of the status read, and it then stores its target and appends a
\* status_changed entry whose old_status is the status read. So two calls
\* that read the same status are both accepted and leave two entries with
\* one old_status.
C13_ValidatedAgainstStatusRead ==
    [][\A w \in Workers :
          (Finish(w) /\ inflight[w].op = "change_status")
          => LET q == inflight[w]
             IN  /\ last'.res = OK <=> q.arg \in TransitionTable[q.self.status]
                 /\ last'.res = OK
                       => /\ tickets'[q.pk].status = q.arg
                          /\ Appends(<<StatusChangedEntry(q.pk, q.by, q.self.status, q.arg)>>)
                 /\ last'.res # OK => Untouched]_vars

\* C13: two change_status calls that both read status new were both accepted:
\* the trail holds two status_changed entries from new, to different
\* statuses, and the stored status is the one of the later entry only
C13_Witness ==
    /\ last.op = "change_status"
    /\ last.res = OK
    /\ Len(history) = 3
    /\ history[2].action = ACTION_STATUS_CHANGED
    /\ history[3].action = ACTION_STATUS_CHANGED
    /\ history[2].old_status = STATUS_NEW
    /\ history[3].old_status = STATUS_NEW
    /\ history[2].new_status # history[3].new_status
    /\ tickets[last.pk].status = history[3].new_status

\* the visibility scope of the specification: all tickets for the roles admin
\* and dispatcher, the tickets assigned to the actor for the role technician,
\* the tickets reported by the actor for the role reporter
VisibleTo(user) ==
    CASE get_user_role(user) \in {"admin", "dispatcher"} -> Pks
      [] get_user_role(user) = "technician" ->
             {pk \in Pks : tickets[pk].technician = user}
      [] get_user_role(user) = "reporter" ->
             {pk \in Pks : tickets[pk].reporter = user}

ReadPaths == {"list", "detail", "export", "kanban", "search"}

\* C14: in the ticket list, the ticket detail, the CSV export, the kanban
\* board and the search, an actor of role reporter is shown no ticket whose
\* reporter is another user, an actor of role technician is shown no ticket
\* whose technician is another user, and an actor of role admin or dispatcher
\* is shown every ticket that matches the request.
C14_ReadsAreScoped ==
    last.op \in ReadPaths
    => /\ get_user_role(last.user) = "reporter"
             => \A pk \in last.shown : tickets[pk].reporter = last.user
       /\ get_user_role(last.user) = "technician"
             => \A pk \in last.shown : tickets[pk].technician = last.user
       /\ get_user_role(last.user) \in {"admin", "dispatcher"}
             => last.shown = last.query \cap Pks

\* C14: the search of a technician, with a query that matches the stored
\* ticket, shows nothing: the ticket is assigned to somebody else
C14_Witness ==
    /\ last.op = "search"
    /\ get_user_role(last.user) = "technician"
    /\ last.query # {}
    /\ last.shown = {}
    /\ \E pk \in last.query : tickets[pk].technician \notin {NoUser, last.user}

\* C15: the response of detail, assign, start, close, comment and edit for a
\* ticket that is outside the actor's visibility scope, stored or not, is
\* 'not found' (never 'forbidden'), so that a stored ticket outside the scope
\* cannot be told from a ticket that does not exist.
C15_OutOfScopeIsNotFound ==
    (/\ last.op \in {"detail", "assign", "start", "close", "comment", "edit"}
     /\ last.pk \notin VisibleTo(last.user))
    => last.code = HTTP_NOT_FOUND

\* C16: for every superuser flag and every set of groups get_user_role gives
\* exactly one role, the first that matches in the order admin (superuser or
\* group admin), dispatcher, technician, reporter; and the branch the
\* visibility filters take (is_admin_or_dispatcher, then is_technician, else
\* the reporter's) is the branch of that role.
C16_RoleIsFirstMatch ==
    \A u \in Users :
        LET su == auth[u].is_superuser
            gs == auth[u].groups
            role == get_user_role(u)
        IN  /\ role \in {"admin", "dispatcher", "technician", "reporter"}
            /\ role = "admin" <=> (su \/ "admin" \in gs)
            /\ role = "dispatcher"
                  <=> (~su /\ "admin" \notin gs /\ "dispatcher" \in gs)
            /\ role = "technician"
                  <=> (~su /\ gs \cap {"admin", "dispatcher"} = {}
                       /\ "technician" \in gs)
            /\ role = "reporter"
                  <=> (~su /\ gs \cap {"admin", "dispatcher", "technician"} = {})
            /\ is_admin_or_dispatcher(u) <=> role \in {"admin", "dispatcher"}
            /\ (~is_admin_or_dispatcher(u) /\ is_technician(u)) <=> role = "technician"
            /\ (~is_admin_or_dispatcher(u) /\ ~is_technician(u)) <=> role = "reporter"

\* C16: the edit form was opened for a user who is in the groups dispatcher,
\* technician and reporter at once: the role is dispatcher
C16_Witness ==
    /\ last.op = "user_edit_form"
    /\ last.code = HTTP_OK
    /\ ~auth[last.target].is_superuser
    /\ auth[last.target].groups = {"dispatcher", "technician", "reporter"}
    /\ get_user_role(last.target) = "dispatcher"
    /\ last.res = "dispatcher"

\* C17: a start or close request on a stored ticket is let through exactly
\* when the actor's role is admin or dispatcher, or the role is technician
\* and the actor is the ticket's technician; an actor of role reporter is
\* always turned away, whoever was assigned to the ticket.
C17_StatusChangeGatedByRole ==
    (last.op \in {"start", "close"} /\ last.pk \in Pks)
    => (last.code # HTTP_FORBIDDEN
          <=> \/ get_user_role(last.user) \in {"admin", "dispatcher"}
              \/ /\ get_user_role(last.user) = "technician"
                 /\ tickets[last.pk].technician = last.user)

\* C18: an assign request on a stored ticket is let through exactly when the
\* actor's role is admin or dispatcher; from an actor of role technician or
\* reporter it is answered 'forbidden' and changes neither the technician, nor
\* the status, nor the audit trail.
C18_AssignGatedByRole ==
    [][(last'.op = "assign" /\ last'.pk \in Pks)
          => IF get_user_role(last'.user) \in {"admin", "dispatcher"}
             THEN last'.code # HTTP_FORBIDDEN
             ELSE /\ last'.code = HTTP_FORBIDDEN
                  /\ tickets'[last'.pk].technician = tickets[last'.pk].technician
                  /\ tickets'[last'.pk].status = tickets[last'.pk].status
                  /\ Untouched]_vars

\* C18: the reporter of a ticket asked to assign it and was turned away
C18_Witness ==
    /\ last.op = "assign"
    /\ last.code = HTTP_FORBIDDEN
    /\ get_user_role(last.user) = "reporter"
    /\ tickets[last.pk].reporter = last.user

\* C19: a create request is let through exactly when the actor's role is
\* admin, dispatcher or reporter (a user in no group included) and is
\* answered 'forbidden' for every actor of role technician.
C19_CreateGatedByRole ==
    last.op = "create"
    => (last.code # HTTP_FORBIDDEN
          <=> get_user_role(last.user) \in {"admin", "dispatcher", "reporter"})

\* C20: the direct edit is let through exactly when the actor's role is admin
\* (superuser or member of the group admin) and is answered 'forbidden' for
\* the roles dispatcher, technician and reporter.
C20_EditGatedByRole ==
    last.op = "edit"
    => (last.code # HTTP_FORBIDDEN <=> get_user_role(last.user) = "admin")

\* C21: a comment request on a stored ticket is let through exactly when the
\* ticket is inside the actor's visibility scope (every ticket for the roles
\* admin and dispatcher, the tickets assigned to the actor for the role
\* technician, the tickets reported by the actor for the role reporter); when
\* let through it adds one comment and one 'commented' entry, and every other
\* comment request is denied and adds neither a comment nor an audit entry.
C21_CommentGatedByScope ==
    [][(last'.op = "comment" /\ last'.pk \in Pks)
          => IF last'.pk \in VisibleTo(last'.user)
             THEN /\ last'.code = HTTP_REDIRECT
                  /\ comments' = Append(comments,
                         [ticket |-> last'.pk, author |-> last'.user])
                  /\ Appends(<<[ticket |-> last'.pk, changed_by |-> last'.user,
                                action |-> "commented",
                                old_status |-> "", new_status |-> ""]>>)
             ELSE /\ last'.code = HTTP_FORBIDDEN
                  /\ comments' = comments
                  /\ Untouched]_vars

\* C21: an actor of role technician asked to comment on a ticket the actor
\* reported, which is not assigned to the actor, and was turned away
C21_Witness ==
    /\ last.op = "comment"
    /\ last.code = HTTP_FORBIDDEN
    /\ get_user_role(last.user) = "technician"
    /\ tickets[last.pk].reporter = last.user
    /\ tickets[last.pk].technician # last.user
    /\ comments = <<>>

\* C22: listing the users and editing a user's data and role are let through
\* only for actors of role admin; creating and editing equipment are let
\* through for the roles admin and dispatcher; actors of role technician or
\* reporter are turned away from all of them.
C22_UserManagementAdminOnly ==
    /\ last.op \in {"user_list", "user_edit_form", "user_edit"}
          => (last.code # HTTP_FORBIDDEN <=> get_user_role(last.user) = "admin")
    /\ last.op \in {"equipment_create", "equipment_edit"}
          => (last.code # HTTP_FORBIDDEN
                <=> get_user_role(last.user) \in {"admin", "dispatcher"})

\* the entries the step appends to the audit trail
Appended == SubSeq(history', Len(history) + 1, Len(history'))

\* the entries among es that carry a status
StatusEntries(es) ==
    SelectSeq(es, LAMBDA e : e.old_status # "" \/ e.new_status # "")

\* C23: every accepted operation that skips the transition validation
\* (change_status, assign, start_work or close called with
\* bypass_validation=True, and the administrator's direct edit) and changes
\* the stored status appends exactly one audit entry that carries a status,
\* with old_status the status before and new_status the status after the
\* operation; when it leaves the status the same it appends no entry that
\* carries a status.
C23_AuditCompleteUnderBypass ==
    [][\A pk \in Pks :
          (/\ last'.res = OK
           /\ last'.pk = pk
           /\ \/ /\ last'.op = "change_status"
                 /\ \E by \in Callers : ChangeStatus(pk, tickets'[pk].status, by, TRUE)
              \/ /\ last'.op = "assign"
                 /\ \E by \in Callers : Assign(pk, tickets'[pk].technician, by, TRUE)
              \/ /\ last'.op = "start_work"
                 /\ \E by \in Callers : StartWork(pk, by, TRUE)
              \/ /\ last'.op = "close"
                 /\ \E by \in Callers : Close(pk, by, TRUE)
              \/ /\ last'.op = "admin_edit"
                 /\ \E user \in Users :
                        AdminEdit(pk, user, tickets'[pk].status, tickets'[pk].technician))
          => /\ Len(history') >= Len(history)
             /\ SubSeq(history', 1, Len(history)) = history
             /\ IF tickets'[pk].status # tickets[pk].status
                THEN /\ Len(StatusEntries(Appended)) = 1
                     /\ StatusEntries(Appended)[1].ticket = pk
                     /\ StatusEntries(Appended)[1].old_status = tickets[pk].status
                     /\ StatusEntries(Appended)[1].new_status = tickets'[pk].status
                ELSE StatusEntries(Appended) = <<>>]_vars

\* C23: the administrator's direct edit has reopened a closed ticket, a move
\* no validated call makes, and the trail ends with the entry of that move
C23_Witness ==
    /\ last.op = "admin_edit"
    /\ last.res = OK
    /\ tickets[last.pk].status = STATUS_NEW
    /\ history[Len(history)].action = ACTION_EDITED
    /\ history[Len(history)].old_status = STATUS_CLOSED
    /\ history[Len(history)].new_status = STATUS_NEW

\* s is a prefix of t
IsPrefix(s, t) == Len(s) <= Len(t) /\ SubSeq(t, 1, Len(s)) = s

\* C24: the audit trail of a ticket is append-only: at every operation the
\* trail as it is read before the operation (in timestamp order) is a prefix
\* of the trail as it is read after it; no entry is edited, removed or
\* reordered.
C24_TrailIsAppendOnly ==
    [][\A pk \in Pks :
          IsPrefix(TicketDetailView_history(pk), TicketDetailView_history(pk)')]_vars

\* C25: in every reachable state a ticket whose stored status is new has no
\* technician, and the technician of a ticket becomes non-empty only in an
\* operation that moves the ticket to assigned.
C25_NewHasNoTechnician ==
    /\ [](\A pk \in Pks :
             tickets[pk].status = "new" => tickets[pk].technician = NoUser)
    /\ [][\A pk \in Pks :
             (tickets[pk].technician = NoUser /\ tickets'[pk].technician # NoUser)
             => (tickets[pk].status # "assigned" /\ tickets'[pk].status = "assigned")]_vars

\* C26: is_overdue at the instant now is true if and only if due_date is set,
\* the status is not closed and now > due_date; for every closed ticket it is
\* false whatever the due_date; and once a ticket is closed it stays false
\* under every operation made without bypass.
C26_OverdueIffOpenAndLate ==
    [][\A pk \in Pks :
          /\ GetTicketContext(pk)
                => (last'.is_overdue
                      <=> (/\ tickets[pk].due_date # Unset
                           /\ tickets[pk].status # "closed"
                           /\ now > tickets[pk].due_date[1]))
          /\ tickets'[pk].status = "closed" => ~is_overdue(tickets'[pk], now')
          /\ tickets[pk].status = "closed"
                => (tickets'[pk].status = "closed" /\ ~is_overdue(tickets'[pk], now'))]_vars

\* C26: the detail page of a ticket closed after its due_date shows it as not
\* overdue
C26_Witness ==
    /\ last.op = "context"
    /\ ~last.is_overdue
    /\ tickets[last.pk].status = STATUS_CLOSED
    /\ tickets[last.pk].due_date # Unset
    /\ tickets[last.pk].closed_at[1] > tickets[last.pk].due_date[1]
    /\ now > tickets[last.pk].due_date[1]

\* the absolute value
Abs(x) == IF x < 0 THEN 0 - x ELSE x

\* tenths is the number of minutes, expressed in hours and rounded to one
\* decimal (counted in tenths of an hour)
IsHoursRounded(tenths, minutes) == 2 * Abs(6 * tenths - minutes) <= 6

\* C27: in every reachable state resolution_hours is null for every ticket
\* whose status is not closed, and for a closed ticket it is
\* closed_at - created_at expressed in hours, rounded to one decimal.
C27_ResolutionHoursNullWhileOpen ==
    \A pk \in Pks :
        IF tickets[pk].status # "closed"
        THEN resolution_hours(tickets[pk]) = Unset
        ELSE /\ resolution_hours(tickets[pk]) # Unset
             /\ IsHoursRounded(resolution_hours(tickets[pk])[1],
                               tickets[pk].closed_at[1] - tickets[pk].created_at[1])

\* the trail holds nothing about ticket pk but the entry of its creation
OnlyCreated(pk) ==
    /\ TicketDetailView_history(pk) # <<>>
    /\ \A i \in DOMAIN TicketDetailView_history(pk) :
           TicketDetailView_history(pk)[i].action = "created"

\* C28: over the clock in minutes, a ticket created at t with status new and
\* due_date t + 1h is overdue at t + 1h2m when no operation was applied to
\* it; when close was accepted at t + 2h, the ticket is not overdue and its
\* resolution_hours is 2.0.
C28_OverdueThenClosedScenario ==
    \A pk \in Pks :
        LET ticket == tickets[pk]
            t == ticket.created_at[1]
        IN  ticket.due_date = <<t + 60>>
            => /\ (/\ now = t + 62
                   /\ ticket.status = "new"
                   /\ OnlyCreated(pk))
                  => is_overdue(ticket, now)
               /\ (/\ ticket.status = "closed"
                   /\ ticket.closed_at = <<t + 120>>)
                  => /\ ~is_overdue(ticket, now)
                     /\ resolution_hours(ticket) = <<20>>

\* C28: a ticket due an hour after its creation was closed from status new two
\* hours after its creation, by the first call ever accepted on it
C28_Witness ==
    /\ last.op = "close"
    /\ last.res = OK
    /\ now = 120
    /\ tickets[last.pk].created_at = At(0)
    /\ tickets[last.pk].due_date = At(60)
    /\ tickets[last.pk].closed_at = At(120)
    /\ Len(history) = 2
    /\ history[2].old_status = STATUS_NEW
    /\ history[2].new_status = STATUS_CLOSED

\* r is the quotient n / d rounded to a whole number, d > 0
IsRounded(r, n, d) == 2 * Abs(r * d - n) <= d

\* percent is min(100, round(100 * elapsed / total))
IsElapsedPercent(percent, elapsed, total) ==
    \E r \in 0..((100 * elapsed) \div total + 1) :
        /\ IsRounded(r, 100 * elapsed, total)
        /\ percent = IF r < 100 THEN r ELSE 100

\* C29 as stated: for every open ticket that has a due_date the SLA elapsed
\* percent is defined and equals
\* min(100, round(100 * (now - created_at) / (due_date - created_at))); it is
\* undefined exactly when due_date is unset or the ticket is closed.
C29_PercentDefinedForOpenWithDueDate ==
    [][\A pk \in Pks :
          GetTicketContext(pk)
          => LET ticket == tickets[pk]
             IN  /\ last'.sla_percent = Unset
                       <=> (ticket.due_date = Unset \/ ticket.status = "closed")
                 /\ (ticket.due_date # Unset /\ ticket.status # "closed")
                       => /\ last'.sla_percent # Unset
                          /\ IsElapsedPercent(last'.sla_percent[1],
                                              now - ticket.created_at[1],
                                              ticket.due_date[1] - ticket.created_at[1])]_vars

\* C29 amended: for every open ticket whose due_date is later than its
\* created_at the SLA elapsed percent is defined and equals
\* min(100, round(100 * (now - created_at) / (due_date - created_at))); it is
\* undefined exactly when due_date is unset, the ticket is closed, or the
\* due_date is not later than created_at.
C29_PercentDefinedForDueAfterCreation ==
    [][\A pk \in Pks :
          GetTicketContext(pk)
          => LET ticket == tickets[pk]
             IN  IF /\ ticket.due_date # Unset
                    /\ ticket.status # "closed"
                    /\ ticket.due_date[1] > ticket.created_at[1]
                 THEN /\ last'.sla_percent # Unset
                      /\ IsElapsedPercent(last'.sla_percent[1],
                                          now - ticket.created_at[1],
                                          ticket.due_date[1] - ticket.created_at[1])
                 ELSE last'.sla_percent = Unset]_vars

\* C29: the detail page of an open ticket shows 97 percent 58 minutes into an
\* SLA of an hour
C29_Witness ==
    /\ last.op = "context"
    /\ last.sla_percent = At(97)
    /\ now = 58
    /\ tickets[last.pk].status # STATUS_CLOSED
    /\ tickets[last.pk].due_date = At(60)
    /\ tickets[last.pk].created_at = At(0)

\* the entry of the creation of ticket pk by user
CreatedEntry(pk, user) ==
    [ticket |-> pk, changed_by |-> user, action |-> "created",
     old_status |-> "", new_status |-> "new"]

C31_DeniedChangesNothing ==
    [][(/\ last'.op \in {"create", "assign", "start", "close", "comment", "edit"}
        /\ \/ last'.user = AnonymousUser
           \/ last'.code \in {HTTP_FORBIDDEN, HTTP_LOGIN})
          => (/\ Untouched
              /\ comments' = comments)]_vars

\* C31: a close request without session for a stored open ticket was sent to
\* the login page, and the ticket is still open
C31_Witness ==
    /\ last.op = "close"
    /\ last.user = AnonymousUser
    /\ last.code = HTTP_LOGIN
    /\ last.pk \in Pks
    /\ tickets[last.pk].status = STATUS_ASSIGNED
    /\ tickets[last.pk].closed_at = Unset

\* the entries of ticket pk that carry its status: created, status_changed
\* and edited
StatusBearing(pk) ==
    SelectSeq(history, LAMBDA e : /\ e.ticket = pk
                                  /\ e.action \in {ACTION_CREATED,
                                                    ACTION_STATUS_CHANGED,
                                                    ACTION_EDITED})

C33_StatusChangeKeepsOtherFields ==
    [][\A w \in Workers :
          (/\ inflight[w] # Idle
           /\ inflight[w].op \in {"change_status", "start_work", "close"}
           /\ Finish(w))
          => LET pk == inflight[w].pk
             IN  /\ tickets'[pk].technician = tickets[pk].technician
                 /\ tickets'[pk].reporter = tickets[pk].reporter
                 /\ tickets'[pk].due_date = tickets[pk].due_date]_vars

\* C34: when two close or change_status(closed) calls on the same open ticket
\* interleave, closed_at is written once: the call that commits second leaves
\* the instant stored by the first as it is.
C34_ClosedAtKeptUnderInterleaving ==
    [][\A w \in Workers :
          (/\ inflight[w] # Idle
           /\ \/ inflight[w].op = "close"
              \/ inflight[w].op = "change_status" /\ inflight[w].arg = STATUS_CLOSED
           /\ inflight[w].self.status # STATUS_CLOSED
           /\ tickets[inflight[w].pk].closed_at # Unset
           /\ Finish(w))
          => tickets'[inflight[w].pk].closed_at = tickets[inflight[w].pk].closed_at]_vars

\* C35: under the requests create, assign, start, close and comment, a ticket
\* in assigned or in_progress always has a technician, and a ticket in
\* in_progress has an accepted assign behind it.
C35_WorkedTicketHasTechnician ==
    \A pk \in Pks :
        /\ tickets[pk].status \in {STATUS_ASSIGNED, STATUS_IN_PROGRESS}
              => tickets[pk].technician # NoUser
        /\ tickets[pk].status = STATUS_IN_PROGRESS
              => \E i \in DOMAIN history :
                     /\ history[i].ticket = pk
                     /\ history[i].action = ACTION_ASSIGNED
                     /\ \E j \in 1..(i - 1) :
                            /\ history[j].ticket = pk
                            /\ history[j].new_status = STATUS_ASSIGNED

\* C35: the start request was accepted for an assigned ticket, which is now
\* in progress with its technician
C35_Witness ==
    /\ last.op = "start"
    /\ last.res = OK
    /\ last.code = HTTP_REDIRECT
    /\ tickets[last.pk].status = STATUS_IN_PROGRESS
    /\ tickets[last.pk].technician = "tech"

\* the statuses that follow the statuses S by one allowed transition
After(S) == UNION {ALLOWED_TRANSITIONS[s] : s \in S}

\* the statuses that follow s by one or more allowed transitions
Later(s) ==
    LET a == After({s})
        b == a \cup After(a)
        c == b \cup After(b)
    IN  c \cup After(c)

\* the number of status changes the trail records for ticket pk
StatusChanges(pk) ==
    Len(SelectSeq(history, LAMBDA e : /\ e.ticket = pk
                                      /\ e.action = ACTION_STATUS_CHANGED))

\* C36: with the validation in force the lifecycle ends: close is accepted
\* from new, assigned and in_progress, no status follows itself by allowed
\* transitions, a ticket goes through at most three status changes, and after
\* three every further call that would change the status is rejected.
C36_LifecycleTerminates ==
    /\ [](/\ \A s \in STATUS_CHOICES : s \notin Later(s)
          /\ \A pk \in Pks : StatusChanges(pk) <= 3)
    /\ [][\A pk \in Pks, by \in Callers :
             /\ (/\ last'.op = "close"
                 /\ tickets[pk].status # STATUS_CLOSED
                 /\ Close(pk, by, FALSE))
                   => (last'.res = OK /\ tickets'[pk].status = STATUS_CLOSED)
             /\ (/\ StatusChanges(pk) = 3
                 /\ \/ \E s \in STATUS_CHOICES : ChangeStatus(pk, s, by, FALSE)
                    \/ \E u \in TechnicianArgs : Assign(pk, u, by, FALSE)
                    \/ StartWork(pk, by, FALSE)
                    \/ Close(pk, by, FALSE))
                   => (last'.res # OK /\ Untouched)]_vars

\* C36: the ticket went new, assigned, in_progress, closed, and the call after
\* the third change was rejected
C36_Witness ==
    \E pk \in Pks :
        /\ StatusChanges(pk) = 3
        /\ tickets[pk].status = STATUS_CLOSED
        /\ last.pk = pk
        /\ last.res = ERR_INVALID_TRANSITION

\* C37: the role the context processor gives the templates is the role
\* get_user_role computes, for every superuser flag and every set of groups.
C37_ContextRoleAgrees ==
    last.op = "render" => last.user_role = last.get_user_role

\* C38: after an accepted user_edit that gives the target the role r, one of
\* reporter, dispatcher, technician and admin, get_user_role resolves r for
\* the target.
C38_RoleRoundTrips ==
    (/\ last.op = "user_edit"
     /\ last.code = HTTP_REDIRECT)
      => get_user_role(last.target) = last.res

\* C39: an accepted close request with a resolution comment appends two
\* entries, status_changed from the old status to closed and then commented,
\* and creates no Comment; a rejected close request appends nothing, with or
\* without resolution comment; an accepted add_comment creates one Comment
\* and one commented entry and leaves the ticket as it is.
C39_CloseAndCommentEntries ==
    [][/\ (/\ last'.op = "close"
           /\ last'.code = HTTP_REDIRECT
           /\ last'.res = OK
           /\ PostClose(last'.user, last'.pk, TRUE))
             => /\ Appends(<<StatusChangedEntry(last'.pk, last'.user,
                                                tickets[last'.pk].status,
                                                STATUS_CLOSED),
                             HistoryEntry(last'.pk, last'.user, ACTION_COMMENTED,
                                          Blank, Blank)>>)
                /\ comments' = comments
       /\ (/\ last'.op = "close"
           /\ ~(last'.code = HTTP_REDIRECT /\ last'.res = OK))
             => (Untouched /\ comments' = comments)
       /\ (/\ last'.op = "comment"
           /\ last'.code = HTTP_REDIRECT)
             => /\ comments' = Append(comments, [ticket |-> last'.pk,
                                                 author |-> last'.user])
                /\ Appends(<<HistoryEntry(last'.pk, last'.user, ACTION_COMMENTED,
                                          Blank, Blank)>>)
                /\ tickets' = tickets]_vars

\* C39: a close request with a resolution comment was accepted for a new
\* ticket: the trail ends with the status change and the commented entry, and
\* there is no Comment
C39_Witness ==
    /\ last.op = "close"
    /\ last.code = HTTP_REDIRECT
    /\ last.res = OK
    /\ Len(history) = 3
    /\ history[2] = StatusChangedEntry(last.pk, last.user, STATUS_NEW, STATUS_CLOSED)
    /\ history[3] = HistoryEntry(last.pk, last.user, ACTION_COMMENTED, Blank, Blank)
    /\ comments = <<>>

\* C40: when is_overdue is true for a ticket whose due_date is later than its
\* created_at, the SLA percent of the same instant is 100 and the band is
\* 'danger'; a percent that is defined is a whole number from 0 to 100.
C40_OverdueMeansFullPercent ==
    [][\A pk \in Pks :
          (last'.op = "context" /\ GetTicketContext(pk))
          => LET ticket == tickets[pk]
             IN  /\ (/\ last'.is_overdue
                     /\ ticket.due_date[1] > ticket.created_at[1])
                       => /\ last'.sla_percent = At(100)
                          /\ last'.sla_color = "danger"
                 /\ last'.sla_percent # Unset
                       => last'.sla_percent[1] \in 0..100]_vars

\* C40: the detail page of an open ticket due an hour after its creation is
\* read after the due date has passed: overdue, 100 percent, band danger
C40_Witness ==
    /\ last.op = "context"
    /\ last.is_overdue
    /\ tickets[last.pk].due_date = At(tickets[last.pk].created_at[1] + 60)
    /\ now > tickets[last.pk].due_date[1]
    /\ last.sla_percent = At(100)
    /\ last.sla_color = "danger"

=============================================================================
